---- MODULE Spec2Model ----
(***************************************************************************)
(* xswarm-ai-sanitize: the detection-and-redaction engine.                 *)
(*                                                                         *)
(* Text is a sequence of one-character strings.  Offsets are 0-based as in *)
(* JavaScript; SubSeq is 1-based, so slice does the shift.                 *)
(*                                                                         *)
(* The repository holds two bodies of redactSecrets: the one that sorts    *)
(* ascending and drops overlapping findings (unnamed/part_009:312-346) and *)
(* the one that splices every finding in descending position order         *)
(* (src/detectors.js:99-113).  The variable detectorsBuild says which of   *)
(* the two is linked; every property is checked for both.                  *)
(***************************************************************************)
EXTENDS Integers, Sequences, FiniteSets, TLC

VARIABLES
  detectorsBuild,     \* "dedup" (part_009:312-346) or "desc" (src/detectors.js:99-113)
  secretPatterns,     \* the compiled secret catalog (detectors.js:15-18)
  injectionPatterns,  \* the compiled injection catalog (part_009:370-373)
  rText,              \* redaction harness: the text given to the Redactor
  rSecrets,           \* redaction harness: the finding list given to the Redactor
  rFromScan,          \* redaction harness: rSecrets came from detectSecrets(rText)
  rOut,               \* redaction harness: what redactSecrets returned
  rJudged,            \* entropy harness: the strings isHighEntropy was asked about
  trail,              \* history: the stages the last sanitize call went through
  compiledLastIndex,          \* pattern.compiled.lastIndex of the pattern being run
  iterations,         \* history: iterations of the loop that is running
  rPc,                \* redaction harness: "idle" | "found" | "done"
  map,                \* cache: the Map, in insertion order (cli.js:208)
  maxSize,            \* cache: options.maxSize (cli.js:207)
  ttl,                \* cache: options.ttl (cli.js:207)
  now,                \* Date.now()
  lastOp,             \* the last cache operation and what it returned
  uses,               \* history: per cached key, when it was set, least recently used first
  call,               \* the last sanitize call and what it returned
  origin,             \* history: per cached key, the sanitize call that stored it
  pending,            \* the sanitize calls suspended at await analyzeWithAI (index.js:56)
  aiCall,             \* history: how the AI request of the last call ended
  previous,           \* session harness: the call before the last one
  remaining           \* session harness: the calls it may still make

vars == <<detectorsBuild, secretPatterns, injectionPatterns, rText, rSecrets,
          rFromScan, rOut, rJudged, rPc, trail, compiledLastIndex, iterations, map, maxSize, ttl, now, lastOp, uses, call, origin,
          pending, aiCall, previous, remaining>>

(***************************************************************************)
(* Bounds                                                                  *)
(***************************************************************************)
MaxLen == 3          \* longest text given to the Redactor harness
MaxFindings == 2     \* longest finding list supplied by hand
MaxTime == 2         \* the clock stops here
MaxTtl == 1          \* largest ttl a cache is created with
MaxCacheSize == 2    \* largest maxSize a cache is created with
MaxCalls == 3        \* calls made in one session of the session harness
MaxIterations == 4   \* iterations of one loop that are followed

Alphabet == {"a", "b"}

Min(a, b) == IF a < b THEN a ELSE b
Max(a, b) == IF a > b THEN a ELSE b

RECURSIVE SeqsUpTo(_, _)
SeqsUpTo(S, n) ==
  IF n = 0 THEN {<<>>}
  ELSE LET shorter == SeqsUpTo(S, n - 1)
       IN shorter \cup {Append(s, x) : s \in {t \in shorter : Len(t) = n - 1}, x \in S}

Texts == SeqsUpTo(Alphabet, MaxLen)

(***************************************************************************)
(* String primitives                                                       *)
(***************************************************************************)
\* String.prototype.slice(start, end): negative indexes count from the end,
\* both are clamped to [0, length], an empty range gives "".
sliceIndex(s, i) == IF i < 0 THEN Max(Len(s) + i, 0) ELSE Min(i, Len(s))

slice(s, start, end) ==
  LET lo == sliceIndex(s, start)
      hi == sliceIndex(s, end)
  IN IF lo >= hi THEN <<>> ELSE SubSeq(s, lo + 1, hi)

sliceFrom(s, start) == slice(s, start, Len(s))

\* String.prototype.includes
includes(hay, needle) ==
  \E i \in 0..(Len(hay) - Len(needle)) : slice(hay, i, i + Len(needle)) = needle

\* the template literal `[REDACTED:${secret.name}]`
Placeholder(name) ==
  <<"[", "R", "E", "D", "A", "C", "T", "E", "D", ":">> \o name \o <<"]">>

(***************************************************************************)
(* Redactor                                                                *)
(***************************************************************************)
spanStart(f) == f.position
spanEnd(f) == f.position + Len(f.value)

\* comparator of the ascending sort: position ascending, then longer first
cmpAsc(a, b) ==
  IF a.position # b.position THEN a.position - b.position
  ELSE Len(b.value) - Len(a.value)

\* comparator of the descending sort
cmpDesc(a, b) == b.position - a.position

cmp(order, a, b) == IF order = "asc" THEN cmpAsc(a, b) ELSE cmpDesc(a, b)

\* Array.prototype.sort is stable: x goes after every element that does
\* not compare greater than it.
RECURSIVE insertSorted(_, _, _)
insertSorted(order, sorted, x) ==
  IF sorted = <<>> THEN <<x>>
  ELSE IF cmp(order, Head(sorted), x) <= 0
       THEN <<Head(sorted)>> \o insertSorted(order, Tail(sorted), x)
       ELSE <<x>> \o sorted

RECURSIVE sortFindings(_, _)
sortFindings(order, fs) ==
  IF fs = <<>> THEN <<>>
  ELSE insertSorted(order, sortFindings(order, SubSeq(fs, 1, Len(fs) - 1)), fs[Len(fs)])

\* the walk that keeps a finding only if it starts at or after lastEnd
RECURSIVE dropOverlapping(_, _)
dropOverlapping(sorted, lastEnd) ==
  IF sorted = <<>> THEN <<>>
  ELSE LET secret == Head(sorted)
           start == secret.position
           end == start + Len(secret.value)
       IN IF start < lastEnd
          THEN dropOverlapping(Tail(sorted), lastEnd)
          ELSE <<secret>> \o dropOverlapping(Tail(sorted), end)

nonOverlapping(secrets) == dropOverlapping(sortFindings("asc", secrets), -1)

reverseSeq(s) == [i \in 1..Len(s) |-> s[Len(s) + 1 - i]]

\* The findings the loop splices, in the order it splices them.
splicedDedup(secrets) == reverseSeq(nonOverlapping(secrets))
splicedDesc(secrets) == sortFindings("desc", secrets)

spliced(build, secrets) ==
  IF build = "dedup" THEN splicedDedup(secrets) ELSE splicedDesc(secrets)

\* spliceOne with the tail taken one character early
spliceOneShort(result, secret) ==
  slice(result, 0, secret.position)
    \o Placeholder(secret.name)
    \o sliceFrom(result, secret.position + Len(secret.value) - 1)

\* one iteration of the loop body
spliceOne(result, secret) ==
  slice(result, 0, secret.position)
    \o Placeholder(secret.name)
    \o sliceFrom(result, secret.position + Len(secret.value))

RECURSIVE spliceAll(_, _)
spliceAll(result, todo) ==
  IF todo = <<>> THEN result
  ELSE spliceAll(spliceOne(result, Head(todo)), Tail(todo))

redactSecretsDedup(text, secrets) ==
  IF text = <<>> \/ secrets = <<>> THEN text
  ELSE spliceAll(text, splicedDedup(secrets))

redactSecretsDesc(text, secrets) ==
  IF text = <<>> \/ secrets = <<>> THEN text
  ELSE spliceAll(text, splicedDesc(secrets))

redactSecrets(text, secrets) ==
  IF detectorsBuild = "dedup" THEN redactSecretsDedup(text, secrets)
  ELSE redactSecretsDesc(text, secrets)

(***************************************************************************)
(* Entropy analyzer                                                        *)
(***************************************************************************)
MinEntropyLength == 16       \* isHighEntropy's length floor, the {16,} of tokenRegex
MaxTokenLength == 256        \* options.maxLength
EntropyThresholdMilli == 4500  \* threshold = 4.5, in thousandths of a bit

\* the character class of tokenRegex: [A-Za-z0-9_\-+/=.]
TokenChars ==
  {"a", "b", "c", "d", "e", "f", "g", "h", "i", "j", "k", "l", "m", "n", "o",
   "p", "q", "r", "s", "t", "u", "v", "w", "x", "y", "z",
   "A", "B", "C", "D", "E", "F", "G", "H", "I", "J", "K", "L", "M", "N", "O",
   "P", "Q", "R", "S", "T", "U", "V", "W", "X", "Y", "Z",
   "0", "1", "2", "3", "4", "5", "6", "7", "8", "9",
   "_", "-", "+", "/", "=", "."}

\* round(1000 * Math.log2(n)) for n = 1..32
Log2Table ==
  <<0, 1000, 1585, 2000, 2322, 2585, 2807, 3000,
    3170, 3322, 3459, 3585, 3700, 3807, 3907, 4000,
    4087, 4170, 4248, 4322, 4392, 4459, 4524, 4585,
    4644, 4700, 4755, 4807, 4858, 4907, 4954, 5000>>

Log2Milli(n) == IF n <= Len(Log2Table) THEN Log2Table[n] ELSE Log2Table[Len(Log2Table)] + 1

RECURSIVE sumOver(_, _)
sumOver(S, f) ==
  IF S = {} THEN 0
  ELSE LET x == CHOOSE y \in S : TRUE IN f[x] + sumOver(S \ {x}, f)

\* Shannon entropy in thousandths of a bit:
\* -sum p*log2(p) = log2(len) - (sum count*log2(count)) / len
shannonEntropy(str) ==
  IF str = <<>> THEN 0
  ELSE LET chars == {str[i] : i \in 1..Len(str)}
           freq == [ch \in chars |-> Cardinality({i \in 1..Len(str) : str[i] = ch})]
           weighted == [ch \in chars |-> freq[ch] * Log2Milli(freq[ch])]
       IN Log2Milli(Len(str)) - (sumOver(chars, weighted) \div Len(str))

isHighEntropyLow(str) ==
  IF str = <<>> \/ Len(str) < MinEntropyLength THEN FALSE
  ELSE shannonEntropy(str) >= 4000

isHighEntropy(str) ==
  IF str = <<>> \/ Len(str) < MinEntropyLength THEN FALSE
  ELSE shannonEntropy(str) >= EntropyThresholdMilli

\* the end (exclusive, 0-based) of the run of token characters starting at i
RECURSIVE tokenEnd(_, _)
tokenEnd(text, i) ==
  IF i < Len(text) /\ text[i + 1] \in TokenChars THEN tokenEnd(text, i + 1) ELSE i

\* the exec loop of tokenRegex: greedy, so a match is a maximal run from
\* its start; a run shorter than 16 gives no match at any of its offsets.
RECURSIVE tokenScan(_, _)
tokenScan(text, i) ==
  IF i >= Len(text) THEN <<>>
  ELSE LET e == tokenEnd(text, i)
       IN IF e - i < MinEntropyLength
          THEN tokenScan(text, IF e > i THEN e ELSE i + 1)
          ELSE LET token == slice(text, i, e)
                   rest == tokenScan(text, e)
               IN IF Len(token) < MinEntropyLength \/ Len(token) > MaxTokenLength
                  THEN rest
                  ELSE IF shannonEntropy(token) >= EntropyThresholdMilli
                       THEN <<[value |-> token, position |-> i]>> \o rest
                       ELSE rest

extractHighEntropyStrings(text) == tokenScan(text, 0)

(***************************************************************************)
(* Scanner                                                                 *)
(*                                                                         *)
(* patterns.json is configuration, not code: a catalog is an input.  A     *)
(* pattern here is a literal regex `lit`, with an optional capture group   *)
(* covering lit[gOff .. gOff+gLen) (gLen = 0: no group).                   *)
(***************************************************************************)
Severities == {"critical", "high", "medium", "low"}

\* RegExp.prototype.exec with the g flag: the leftmost match at or after
\* lastIndex, or null (-1 here).
execIndex(lit, text, lastIndex) ==
  LET at == {i \in lastIndex..(Len(text) - Len(lit)) : slice(text, i, i + Len(lit)) = lit}
  IN IF at = {} THEN -1 ELSE CHOOSE i \in at : \A j \in at : i <= j

\* the while loop of detectSecrets for one pattern
RECURSIVE secretMatches(_, _, _)
secretMatches(pattern, text, lastIndex) ==
  LET index == execIndex(pattern.lit, text, lastIndex)
  IN IF index < 0 THEN <<>>
     ELSE LET m0 == pattern.lit
              m1 == slice(m0, pattern.gOff, pattern.gOff + pattern.gLen)
              value == IF m1 # <<>> THEN m1 ELSE m0
              position == index
              rest == secretMatches(pattern, text, index + Len(m0))
          IN IF pattern.checkEntropy /\ ~isHighEntropy(value)
             THEN rest
             ELSE <<[name |-> pattern.name, severity |-> pattern.severity,
                     value |-> value, position |-> position,
                     source |-> "pattern"]>> \o rest

RECURSIVE patternFindings(_, _)
patternFindings(patterns, text) ==
  IF patterns = <<>> THEN <<>>
  ELSE secretMatches(Head(patterns), text, 0) \o patternFindings(Tail(patterns), text)

entropyFinding(finding) ==
  [name |-> <<"h">>, severity |-> "medium", value |-> finding.value,
   position |-> finding.position, source |-> "entropy"]

detectSecrets(text) ==
  IF text = <<>> THEN <<>>
  ELSE LET findings == patternFindings(secretPatterns, text)
           foundPositions == {findings[i].position : i \in 1..Len(findings)}
           entropyFindings == extractHighEntropyStrings(text)
       IN findings \o
          SelectSeq([i \in 1..Len(entropyFindings) |-> entropyFinding(entropyFindings[i])],
                    LAMBDA f : f.position \notin foundPositions)

\* the while loop of detectInjections for one pattern: value is match[0]
RECURSIVE injectionMatches(_, _, _)
injectionMatches(pattern, text, lastIndex) ==
  LET index == execIndex(pattern.lit, text, lastIndex)
  IN IF index < 0 THEN <<>>
     ELSE <<[name |-> pattern.name, severity |-> pattern.severity,
             value |-> pattern.lit, position |-> index, source |-> "pattern"]>>
          \o injectionMatches(pattern, text, index + Len(pattern.lit))

RECURSIVE injectionFindings(_, _)
injectionFindings(patterns, text) ==
  IF patterns = <<>> THEN <<>>
  ELSE injectionMatches(Head(patterns), text, 0) \o injectionFindings(Tail(patterns), text)

detectInjections(text) ==
  IF text = <<>> THEN <<>> ELSE injectionFindings(injectionPatterns, text)

isHighSeverity(item) == item.severity = "critical" \/ item.severity = "high"

countHigh(items) == Len(SelectSeq(items, isHighSeverity))

detectAll(text) ==
  LET secrets == detectSecrets(text)
      injections == detectInjections(text)
  IN [secrets |-> secrets,
      injections |-> injections,
      counts |-> [secrets |-> Len(secrets), injections |-> Len(injections),
                  highSeverity |-> countHigh(secrets \o injections)]]

(***************************************************************************)
(* Injection removal                                                       *)
(***************************************************************************)
\* one iteration of removeInjections' loop: before + after
cutOne(result, injection) ==
  slice(result, 0, injection.position)
    \o sliceFrom(result, injection.position + Len(injection.value))

RECURSIVE cutAll(_, _)
cutAll(result, todo) ==
  IF todo = <<>> THEN result ELSE cutAll(cutOne(result, Head(todo)), Tail(todo))

\* length of the run of ch at the head of s
RECURSIVE runLength(_, _)
runLength(s, ch) ==
  IF s # <<>> /\ Head(s) = ch THEN 1 + runLength(Tail(s), ch) ELSE 0

\* replace(/ch{atLeast,}/g, ch repeated `to` times)
RECURSIVE collapseRuns(_, _, _, _)
collapseRuns(s, ch, atLeast, to) ==
  IF s = <<>> THEN <<>>
  ELSE LET n == runLength(s, ch)
       IN IF n = 0
          THEN <<Head(s)>> \o collapseRuns(Tail(s), ch, atLeast, to)
          ELSE [i \in 1..(IF n >= atLeast THEN to ELSE n) |-> ch]
                 \o collapseRuns(SubSeq(s, n + 1, Len(s)), ch, atLeast, to)

Whitespace == {" ", "\n", "\t", "\r"}

RECURSIVE trimStart(_)
trimStart(s) == IF s # <<>> /\ Head(s) \in Whitespace THEN trimStart(Tail(s)) ELSE s

trim(s) == reverseSeq(trimStart(reverseSeq(trimStart(s))))

removeInjections(text, injections) ==
  IF text = <<>> \/ injections = <<>> THEN text
  ELSE LET cut == cutAll(text, sortFindings("desc", injections))
           newlines == collapseRuns(cut, "\n", 3, 2)
           spaces == collapseRuns(newlines, " ", 2, 1)
       IN trim(spaces)

(***************************************************************************)
(* Decision engine                                                         *)
(***************************************************************************)
\* A blockThreshold field as the caller wrote it.
Undefined == [kind |-> "undefined", n |-> 0]
Null == [kind |-> "null", n |-> 0]
Infinity == [kind |-> "Infinity", n |-> 0]
Num(n) == [kind |-> "number", n |-> n]

DefaultSecrets == 3
DefaultInjections == 2
DefaultHighSeverity == 1

\* x ?? d
nullish(x, d) == IF x.kind \in {"undefined", "null"} THEN Num(d) ELSE x

\* count >= threshold, for a finite count
atLeast(count, threshold) == threshold.kind = "number" /\ count >= threshold.n

threshold(options) ==
  [secrets |-> nullish(options.blockThreshold.secrets, DefaultSecrets),
   injections |-> nullish(options.blockThreshold.injections, DefaultInjections),
   highSeverity |-> nullish(options.blockThreshold.highSeverity, DefaultHighSeverity)]

shouldBlock(options, nSecrets, nInjections, highSeverity) ==
  \/ atLeast(nSecrets, threshold(options).secrets)
  \/ atLeast(nInjections, threshold(options).injections)
  \/ atLeast(highSeverity, threshold(options).highSeverity)

\* a detail that copies the finding's value too
detailRaw(t) ==
  [type |-> t.name, severity |-> t.severity, position |-> t.position, value |-> t.value]

detail(t) == [type |-> t.name, severity |-> t.severity, position |-> t.position]

details(items) == [i \in 1..Len(items) |-> detail(items[i])]

\* A Decision.  A field the object literal leaves out has its has* flag
\* FALSE and an empty value; reason holds the three numbers of the template.
NoReason == [secrets |-> 0, injections |-> 0, highSeverity |-> 0]

Decision(blocked, safe, hasSanitized, sanitized, nSecrets, nInjections, hasDetails, dets, hasReason, reason, hasActions, actions) ==
  [kind |-> "decision", blocked |-> blocked, safe |-> safe,
   hasSanitized |-> hasSanitized, sanitized |-> sanitized,
   threats |-> [secrets |-> nSecrets, injections |-> nInjections,
                hasDetails |-> hasDetails, details |-> dets],
   hasReason |-> hasReason, reason |-> reason,
   hasActions |-> hasActions, actions |-> actions]

\* what a call that returns no Decision yields (undefined, or a throw)
NoDecision ==
  [kind |-> "none", blocked |-> FALSE, safe |-> FALSE,
   hasSanitized |-> FALSE, sanitized |-> <<>>,
   threats |-> [secrets |-> 0, injections |-> 0, hasDetails |-> FALSE, details |-> <<>>],
   hasReason |-> FALSE, reason |-> NoReason,
   hasActions |-> FALSE, actions |-> <<>>]

\* an early return that reports the empty content as unsafe
emptyDecisionUnsafe(content, options) ==
  Decision(FALSE, FALSE, TRUE, <<>>, 0, 0, options.mode = "block", <<>>, FALSE, NoReason,
           options.mode = "sanitize", <<>>)

\* the early return for empty content
emptyDecision(content, options) ==
  IF options.mode = "block"
  THEN Decision(FALSE, TRUE, TRUE, <<>>, 0, 0, TRUE, <<>>, FALSE, NoReason, FALSE, <<>>)
  ELSE Decision(FALSE, TRUE, TRUE, <<>>, 0, 0, FALSE, <<>>, FALSE, NoReason, TRUE, <<>>)

blockedDecision(allSecrets, allInjections, highSeverity) ==
  Decision(TRUE, FALSE, FALSE, <<>>, Len(allSecrets), Len(allInjections),
           TRUE, details(allSecrets \o allInjections),
           TRUE, [secrets |-> Len(allSecrets), injections |-> Len(allInjections),
                  highSeverity |-> highSeverity],
           FALSE, <<>>)

passedDecision(content, allSecrets, allInjections) ==
  Decision(FALSE, allSecrets = <<>> /\ allInjections = <<>>,
           TRUE, removeInjections(redactSecrets(content, allSecrets), allInjections),
           Len(allSecrets), Len(allInjections),
           TRUE, details(allSecrets \o allInjections),
           FALSE, NoReason, FALSE, <<>>)

sanitizedDecision(content, allSecrets, allInjections) ==
  Decision(FALSE, allSecrets = <<>> /\ allInjections = <<>>,
           TRUE, removeInjections(redactSecrets(content, allSecrets), allInjections),
           Len(allSecrets), Len(allInjections),
           FALSE, <<>>, FALSE, NoReason,
           TRUE, (IF allSecrets # <<>> THEN <<"secrets_redacted">> ELSE <<>>)
                   \o (IF allInjections # <<>> THEN <<"injections_removed">> ELSE <<>>))

\* a pipeline that redacts before it tests the thresholds
pipelineTrailEager(options, all) ==
  <<"Scanning", "Sanitizing", "redactSecrets", "removeInjections">>
    \o (IF options.mode = "block"
           /\ shouldBlock(options, Len(all.secrets), Len(all.injections),
                          countHigh(all.secrets \o all.injections))
        THEN <<"Blocked">> ELSE <<"Sanitized">>)
    \o <<"cache.set", "return">>

\* the stages of sanitize from the scan to the return, in the order the
\* code goes through them: Scanning is detectAll and the AI merge; a blocked
\* call builds its result and stores it (index.js:115-131); every other call
\* runs redactSecrets and removeInjections first (index.js:134-153, 156-175)
pipelineTrail(options, all) ==
  IF options.mode = "block"
       /\ shouldBlock(options, Len(all.secrets), Len(all.injections),
                      countHigh(all.secrets \o all.injections))
  THEN <<"Scanning", "Blocked", "cache.set", "return">>
  ELSE <<"Scanning", "Sanitizing", "redactSecrets", "removeInjections",
         "Sanitized", "cache.set", "return">>

\* sanitize from the merged findings to the result object: all is what
\* detectAll(content) returned, with the AI findings merged in if any
decide(content, options, all) ==
  LET allSecrets == all.secrets
      allInjections == all.injections
      highSeverity == countHigh(allSecrets \o allInjections)
  IN IF options.mode = "block"
     THEN IF shouldBlock(options, Len(allSecrets), Len(allInjections), highSeverity)
          THEN blockedDecision(allSecrets, allInjections, highSeverity)
          ELSE passedDecision(content, allSecrets, allInjections)
     ELSE sanitizedDecision(content, allSecrets, allInjections)

(***************************************************************************)
(* Merge of the AI findings (index.js:63-94)                               *)
(***************************************************************************)
Str(s) == [kind |-> "string", s |-> s]

\* x || d takes d for undefined, null and 0
falsy(x) == x.kind \in {"undefined", "null"} \/ (x.kind = "number" /\ x.n = 0)

AiSecretName ==
  <<"a", "i", "_", "d", "e", "t", "e", "c", "t", "e", "d", "_", "s", "e", "c", "r", "e", "t">>

AiInjectionName ==
  <<"a", "i", "_", "d", "e", "t", "e", "c", "t", "e", "d", "_",
    "i", "n", "j", "e", "c", "t", "i", "o", "n">>

\* one finding of the AI response: type, severity and position as the model
\* wrote them, any of them possibly missing
AiFinding(type, severity, position) ==
  [type |-> type, severity |-> severity, position |-> position]

\* the AI response after parseAIResponse
AiResults(secrets, injections, confidence) ==
  [kind |-> "results", secrets |-> secrets, injections |-> injections,
   confidence |-> confidence]

\* aiResults.confidence > 0.5, the confidence counted in tenths
ConfidenceThreshold == 5
confident(aiResults) ==
  aiResults.kind = "results" /\ aiResults.confidence > ConfidenceThreshold

\* patternPositions.has(ai.position): the Set holds the start offsets only
atPatternPosition(found, ai) ==
  /\ ai.position.kind = "number"
  /\ \E i \in 1..Len(found) : found[i].position = ai.position.n

\* the object pushed for an AI finding
pushed(ai, defaultName) ==
  [name |-> IF falsy(ai.type) THEN defaultName ELSE ai.type.s,
   severity |-> IF falsy(ai.severity) THEN "medium" ELSE ai.severity.s,
   value |-> <<>>,
   position |-> IF falsy(ai.position) THEN 0 ELSE ai.position.n,
   source |-> "ai"]

merged(found, items, defaultName) ==
  LET kept == SelectSeq(items, LAMBDA ai : ~atPatternPosition(found, ai))
  IN found \o [i \in 1..Len(kept) |-> pushed(kept[i], defaultName)]

\* allSecrets and allInjections
mergeAI(patternResults, aiResults) ==
  IF confident(aiResults)
  THEN [secrets |-> merged(patternResults.secrets, aiResults.secrets, AiSecretName),
        injections |-> merged(patternResults.injections, aiResults.injections,
                              AiInjectionName)]
  ELSE [secrets |-> patternResults.secrets, injections |-> patternResults.injections]

(***************************************************************************)
(* Cache                                                                   *)
(***************************************************************************)
\* position of key in the Map's insertion order, 0 if absent
indexOf(m, key) ==
  IF \E i \in 1..Len(m) : m[i].key = key
  THEN CHOOSE i \in 1..Len(m) : m[i].key = key
  ELSE 0

hasKey(m, key) == indexOf(m, key) # 0

\* Map.prototype.delete
mapDelete(m, key) == SelectSeq(m, LAMBDA e : e.key # key)

\* Map.prototype.set of a key that is absent: appended last
mapAppend(m, entry) == Append(m, entry)

\* evict with > in place of >=
RECURSIVE evictLate(_)
evictLate(m) == IF Len(m) > maxSize THEN evictLate(Tail(m)) ELSE m

\* while (map.size >= maxSize) delete the first key
RECURSIVE evict(_)
evict(m) == IF Len(m) >= maxSize THEN evict(Tail(m)) ELSE m

\* isExpired with >= in place of >
isExpiredEarly(entry, t) == t - entry.timestamp >= ttl

isExpired(entry, t) == t - entry.timestamp > ttl

\* get without the move to the end
cacheGetNoPromote(m, key, t) ==
  LET i == indexOf(m, key)
  IN IF i = 0 THEN [map |-> m, found |-> FALSE]
     ELSE IF t - m[i].timestamp > ttl THEN [map |-> mapDelete(m, key), found |-> FALSE]
     ELSE [map |-> m, found |-> TRUE, value |-> m[i].value]

\* get(key) at time t: the map afterwards, and the value returned
cacheGet(m, key, t) ==
  LET i == indexOf(m, key)
  IN IF i = 0 THEN [map |-> m, found |-> FALSE]
     ELSE IF isExpired(m[i], t) THEN [map |-> mapDelete(m, key), found |-> FALSE]
     ELSE [map |-> mapAppend(mapDelete(m, key), m[i]), found |-> TRUE,
           value |-> m[i].value]

\* a set that takes the key to be absent
cacheSetBlind(m, key, value, t) ==
  mapAppend(evict(m), [key |-> key, value |-> value, timestamp |-> t])

\* set(key, value) at time t
cacheSet(m, key, value, t) ==
  mapAppend(evict(mapDelete(m, key)), [key |-> key, value |-> value, timestamp |-> t])

\* has that takes the entry out of the map and does not put it back
cacheHasConsuming(m, key, t) ==
  LET i == indexOf(m, key)
  IN IF i = 0 THEN [map |-> m, found |-> FALSE]
     ELSE [map |-> mapDelete(m, key), found |-> ~isExpired(m[i], t)]

\* has(key) at time t: the map afterwards, and the boolean returned
cacheHas(m, key, t) ==
  LET i == indexOf(m, key)
  IN IF i = 0 THEN [map |-> m, found |-> FALSE]
     ELSE IF isExpired(m[i], t) THEN [map |-> mapDelete(m, key), found |-> FALSE]
     ELSE [map |-> m, found |-> TRUE]

keysOf(m) == [i \in 1..Len(m) |-> m[i].key]
keySet(m) == {m[i].key : i \in 1..Len(m)}

(***************************************************************************)
(* sanitize                                                                *)
(***************************************************************************)
\* JSON.stringify of one blockThreshold field: undefined is left out,
\* null prints null, a number that is not finite prints null too.
jsonValue(v) ==
  CASE v.kind = "undefined" -> [kind |-> "omitted", n |-> 0]
    [] v.kind = "null" -> [kind |-> "null", n |-> 0]
    [] v.kind = "Infinity" -> [kind |-> "null", n |-> 0]
    [] OTHER -> v

\* JSON.stringify(options).  The text is determined by, and determines,
\* this record; an options object always serialises to {...}, so
\* content + JSON.stringify(options) splits in one way only.
jsonStringify(options) ==
  [mode |-> options.mode,
   blockThreshold |-> [secrets |-> jsonValue(options.blockThreshold.secrets),
                       injections |-> jsonValue(options.blockThreshold.injections),
                       highSeverity |-> jsonValue(options.blockThreshold.highSeverity)],
   ai |-> [enabled |-> options.ai.enabled, provider |-> options.ai.provider,
           timeout |-> jsonValue(options.ai.timeout)]]

\* cache.hashKey(content + JSON.stringify(options)); SHA-256 taken as injective
hashKey(content, options) == <<content, jsonStringify(options)>>

\* a check that only asks for some mode to be given
validModeLoose(options) == options.mode # "undefined"

validMode(options) == options.mode \in {"block", "sanitize"}

\* options.ai absent
NoAi == [enabled |-> FALSE, provider |-> "", timeout |-> Undefined]

\* options.ai?.enabled
aiEnabled(options) == options.ai.enabled

\* no AI request was made
NoAiCall == [asked |-> FALSE, settled |-> "none", reason |-> "", aiResults |-> Null]

NoCall ==
  [content |-> <<>>, options |-> [mode |-> "undefined",
                                  blockThreshold |-> [secrets |-> Undefined,
                                                      injections |-> Undefined,
                                                      highSeverity |-> Undefined],
                                  ai |-> NoAi],
   outcome |-> "none", result |-> NoDecision, hit |-> FALSE, scanned |-> FALSE,
   prior |-> FALSE, first |-> NoDecision]

\* the call record of a sanitize call
Called(content, options, outcome, result, hit, scanned, prior, first) ==
  [content |-> content, options |-> options, outcome |-> outcome, result |-> result,
   hit |-> hit, scanned |-> scanned, prior |-> prior, first |-> first]

\* history: an identical call stored the entry now under cacheKey, and that
\* entry is not expired at time t
storedByIdenticalCall(content, options, t) ==
  LET cacheKey == hashKey(content, options)
  IN /\ hasKey(map, cacheKey)
     /\ origin[cacheKey].content = content
     /\ origin[cacheKey].options = options
     /\ t - map[indexOf(map, cacheKey)].timestamp <= ttl

firstReturned(content, options, t) ==
  IF storedByIdenticalCall(content, options, t)
  THEN origin[hashKey(content, options)].returned
  ELSE NoDecision

\* history kept per cached key: dropped with the entry
keepOrigin(m) == [k \in keySet(m) |-> origin[k]]

(***************************************************************************)
(* AI adapter (ai.js)                                                      *)
(***************************************************************************)
Providers == {"groq", "openai", "anthropic", "ollama", "lmstudio"}

\* timeout = 10000 ms in ai.js:142, scaled to the clock of the model
DefaultTimeout == 2

aiTimeout(ai) == IF ai.timeout.kind = "number" THEN ai.timeout.n ELSE DefaultTimeout

\* the text the provider answered with: prose without any {...}, a {...}
\* that is not JSON, or a JSON object whose secrets / injections may fail to
\* be arrays and whose confidence may fail to be a number
Prose == [kind |-> "prose"]
BadJson == [kind |-> "badjson"]
Json(secretsIsArray, secrets, injectionsIsArray, injections, confidence) ==
  [kind |-> "json", secretsIsArray |-> secretsIsArray, secrets |-> secrets,
   injectionsIsArray |-> injectionsIsArray, injections |-> injections,
   confidence |-> confidence]

parseAIResponse(text) ==
  IF text.kind = "json"
  THEN AiResults(IF text.secretsIsArray THEN text.secrets ELSE <<>>,
                 IF text.injectionsIsArray THEN text.injections ELSE <<>>,
                 IF text.confidence.kind = "number" THEN text.confidence.n ELSE 0)
  ELSE AiResults(<<>>, <<>>, 0)

\* a caller's sanitize call suspended at await analyzeWithAI, or no such call
Idle ==
  [stage |-> "idle", content |-> <<>>, options |-> NoCall.options, cacheKey |-> <<>>,
   patternResults |-> [secrets |-> <<>>, injections |-> <<>>], since |-> 0,
   armed |-> FALSE, reason |-> "", aiResults |-> Null]

Callers == {"c1", "c2"}

inFlight(p) == p.stage \in {"fetching", "body"}
settled(p) == p.stage \in {"resolved", "rejected"}

\* the setTimeout of ai.js:172 is pending and its delay is over
timerDue(p, t) == p.armed /\ t - p.since >= aiTimeout(p.options.ai)

\* a catch that lets the rejection through
tryAnalyzeUncaught(p) ==
  IF p.stage = "resolved" THEN [threw |-> FALSE, aiResults |-> p.aiResults]
  ELSE [threw |-> TRUE, aiResults |-> Null]

\* try { aiResults = await analyzeWithAI(...) } catch { console.warn(...) }
tryAnalyze(p) ==
  [threw |-> FALSE, aiResults |-> IF p.stage = "resolved" THEN p.aiResults ELSE Null]

(***************************************************************************)
(* Inputs                                                                  *)
(***************************************************************************)
\* index.js:11 creates sanitize's cache with maxSize 1000 and ttl 300000 ms;
\* both are scaled down here, keeping maxSize >= 2 and ttl >= 1.
SanitizeMaxSize == 2
SanitizeTtl == 1

Pat(name, severity, lit, gOff, gLen, checkEntropy) ==
  [name |-> name, severity |-> severity, lit |-> lit,
   gOff |-> gOff, gLen |-> gLen, checkEntropy |-> checkEntropy]

\* catalogs for the Redactor harness: overlapping matches (ab / ba), matches
\* sharing a start offset (ab / abb, a / a), a capture group (a(b)), and an
\* entropy-gated pattern
RedactCatalogs ==
  { <<>>,
    <<Pat(<<"p">>, "critical", <<"a", "b">>, 0, 0, FALSE),
      Pat(<<"q">>, "medium", <<"b", "a">>, 0, 0, FALSE)>>,
    <<Pat(<<"p">>, "critical", <<"a", "b">>, 0, 0, FALSE),
      Pat(<<"s">>, "high", <<"a", "b", "b">>, 0, 0, FALSE)>>,
    <<Pat(<<"k">>, "medium", <<"a">>, 0, 0, FALSE),
      Pat(<<"m">>, "low", <<"a">>, 0, 0, FALSE)>>,
    <<Pat(<<"c">>, "critical", <<"a", "b">>, 1, 1, FALSE)>>,
    <<Pat(<<"g">>, "high", <<"b", "b">>, 0, 0, TRUE),
      Pat(<<"k">>, "medium", <<"a">>, 0, 0, FALSE)>> }

\* catalogs for sanitize: [secrets, injections]
Catalogs ==
  { [secrets |-> <<Pat(<<"k">>, "medium", <<"a">>, 0, 0, FALSE),
                   Pat(<<"m">>, "low", <<"a">>, 0, 0, FALSE)>>,
     injections |-> <<Pat(<<"i">>, "low", <<"b">>, 0, 0, FALSE)>>],
    [secrets |-> <<Pat(<<"c">>, "critical", <<"a", "b">>, 1, 1, FALSE)>>,
     injections |-> <<Pat(<<"j">>, "high", <<"b", "b">>, 0, 0, FALSE)>>] }

\* a finding whose value is the text at [position, position + length)
exactFinding(text, name, position, length) ==
  [name |-> name, severity |-> "medium", value |-> slice(text, position, position + length),
   position |-> position, source |-> "pattern"]

FindingsOn(text) ==
  { exactFinding(text, span[1], span[2], span[3]) :
      span \in { x \in {<<"p">>, <<"q">>} \X (0..(Len(text) - 1)) \X (1..Len(text)) :
                 x[2] + x[3] <= Len(text) } }

FindingLists(text) == SeqsUpTo(FindingsOn(text), MaxFindings)

\* the contents sanitize is called with; <<>> is the empty string, and an
\* absent content too: both fail the same test and give sanitized ''
Contents == { <<>>, <<"a", "b">>, <<"a", "a">> }

BlockThreshold(secrets, injections, highSeverity) ==
  [secrets |-> secrets, injections |-> injections, highSeverity |-> highSeverity]

Options(mode, blockThreshold) ==
  [mode |-> mode, blockThreshold |-> blockThreshold, ai |-> NoAi]

\* the options objects sanitize is called with; blockThreshold is either
\* absent (every field Undefined) or has at least one field written; the
\* mode is valid, missing ("undefined") or an unknown word
OptionsSet ==
  { Options("block", BlockThreshold(Undefined, Undefined, Undefined)),
    Options("block", BlockThreshold(Undefined, Undefined, Null)),
    Options("block", BlockThreshold(Undefined, Undefined, Infinity)),
    Options("sanitize", BlockThreshold(Undefined, Undefined, Undefined)),
    Options("undefined", BlockThreshold(Undefined, Undefined, Undefined)),
    Options("strip", BlockThreshold(Undefined, Undefined, Undefined)) }

\* what each group of operations leaves alone
catalogFrame ==
  UNCHANGED <<detectorsBuild, secretPatterns, injectionPatterns, compiledLastIndex, iterations>>
redactFrame == UNCHANGED <<rText, rSecrets, rFromScan, rOut, rJudged, rPc>>
cacheApiFrame == UNCHANGED <<maxSize, ttl, lastOp, uses>>
sanitizeFrame == UNCHANGED <<maxSize, ttl, call, origin, trail>>
aiFrame == UNCHANGED <<pending, aiCall>>
\* a driver that keeps no session
unobserved == UNCHANGED <<previous, remaining>>

(***************************************************************************)
(* sanitize(content, options): one call, AI disabled.  Date.now() is read  *)
(* by cache.has and again by cache.get or cache.set; elapsed is what the   *)
(* clock advanced in between.                                              *)
(***************************************************************************)
SanitizeThrows(content, options) ==
  /\ ~validMode(options)
  /\ call' = Called(content, options, "threw", NoDecision, FALSE, FALSE, FALSE, NoDecision)
  /\ trail' = <<"throw">>
  /\ UNCHANGED <<map, now, origin>>
  /\ catalogFrame /\ redactFrame /\ cacheApiFrame
  /\ UNCHANGED pending /\ aiCall' = NoAiCall

SanitizeEmpty(content, options) ==
  /\ validMode(options)
  /\ content = <<>>
  /\ call' = Called(content, options, "returned", emptyDecision(content, options),
                    FALSE, FALSE, FALSE, NoDecision)
  /\ trail' = <<"return">>
  /\ UNCHANGED <<map, now, origin>>
  /\ catalogFrame /\ redactFrame /\ cacheApiFrame
  /\ UNCHANGED pending /\ aiCall' = NoAiCall

SanitizeCached(content, options, elapsed) ==
  \E cacheKey \in {hashKey(content, options)} :
  \E had \in {cacheHas(map, cacheKey, now)} :
  \E got \in {cacheGet(had.map, cacheKey, now + elapsed)} :
     /\ now + elapsed <= MaxTime
     /\ validMode(options)
     /\ content # <<>>
     /\ had.found
     /\ catalogFrame /\ redactFrame /\ cacheApiFrame
     /\ UNCHANGED pending /\ aiCall' = NoAiCall
     /\ map' = got.map
     /\ now' = now + elapsed
     /\ origin' = keepOrigin(got.map)
     /\ trail' = <<"cache.get", "return">>
     /\ call' = IF got.found
                THEN Called(content, options, "returned", got.value, TRUE, FALSE,
                            storedByIdenticalCall(content, options, now + elapsed),
                            firstReturned(content, options, now + elapsed))
                ELSE Called(content, options, "undefined", NoDecision, FALSE, FALSE,
                            storedByIdenticalCall(content, options, now + elapsed),
                            firstReturned(content, options, now + elapsed))

SanitizeComputed(content, options, elapsed) ==
  \E cacheKey \in {hashKey(content, options)} :
  \E had \in {cacheHas(map, cacheKey, now)} :
  \E patternResults \in {detectAll(content)} :
  \E result \in {decide(content, options, patternResults)} :
  \E stored \in {cacheSet(had.map, cacheKey, result, now + elapsed)} :
     /\ now + elapsed <= MaxTime
     /\ validMode(options)
     /\ content # <<>>
     /\ ~had.found
     /\ ~aiEnabled(options)
     /\ catalogFrame /\ redactFrame /\ cacheApiFrame
     /\ UNCHANGED pending /\ aiCall' = NoAiCall
     /\ map' = stored
     /\ now' = now + elapsed
     /\ origin' = [k \in keySet(stored) |->
                     IF k = cacheKey
                     THEN [content |-> content, options |-> options, returned |-> result]
                     ELSE origin[k]]
     /\ call' = Called(content, options, "returned", result, FALSE, TRUE,
                       storedByIdenticalCall(content, options, now + elapsed),
                       firstReturned(content, options, now + elapsed))
     /\ trail' = pipelineTrail(options, patternResults)

\* time passes between calls
Tick ==
  /\ now < MaxTime
  /\ \A c \in Callers : ~timerDue(pending[c], now)
  /\ now' = now + 1
  /\ UNCHANGED <<map, call, origin, trail>>
  /\ catalogFrame /\ redactFrame /\ cacheApiFrame /\ aiFrame

NoOp == [op |-> "none", key |-> "", found |-> FALSE, value |-> "", evicted |-> <<>>]

\* what a cache operation did: found is has's answer (get: a value came
\* back; set: the key was present), evicted the other keys it removed
Op(op, key, found, value, evicted) ==
  [op |-> op, key |-> key, found |-> found, value |-> value, evicted |-> evicted]

Init ==
  /\ detectorsBuild \in {"dedup", "desc"}
  /\ \E catalog \in Catalogs :
       /\ secretPatterns = catalog.secrets
       /\ injectionPatterns = catalog.injections
  /\ rText = <<>> /\ rSecrets = <<>> /\ rFromScan = FALSE /\ rOut = <<>> /\ rJudged = <<>> /\ rPc = "idle"
  /\ map = <<>>
  /\ maxSize = SanitizeMaxSize
  /\ ttl = SanitizeTtl
  /\ now = 0
  /\ lastOp = NoOp
  /\ uses = <<>>
  /\ call = NoCall
  /\ trail = <<>>
  /\ compiledLastIndex = 0 /\ iterations = 0
  /\ origin = [k \in {} |-> NoCall]
  /\ pending = [c \in Callers |-> Idle] /\ aiCall = NoAiCall
  /\ previous = NoCall /\ remaining = 0

Next ==
  \/ \E content \in Contents, options \in OptionsSet :
       SanitizeThrows(content, options) /\ unobserved
  \/ \E content \in Contents, options \in OptionsSet :
       SanitizeEmpty(content, options) /\ unobserved
  \/ \E content \in Contents, options \in OptionsSet, elapsed \in 0..1 :
       SanitizeCached(content, options, elapsed) /\ unobserved
  \/ \E content \in Contents, options \in OptionsSet, elapsed \in 0..1 :
       SanitizeComputed(content, options, elapsed) /\ unobserved
  \/ Tick /\ unobserved

Spec == Init /\ [][Next]_vars

(***************************************************************************)
(* The cache on its own: createCache({maxSize, ttl}) driven through its    *)
(* get / set / has / clear, as tests/cache.test.js does.                   *)
(***************************************************************************)
KeyNames == <<"a", "b", "c", "d", "e", "f">>
Keys == {KeyNames[i] : i \in 1..(MaxCacheSize + 1)}
Values == {"v1", "v2"}

\* history: key was used (set, or read by a successful get) just now
touch(u, key, setAt) == Append(SelectSeq(u, LAMBDA r : r.key # key), [key |-> key, setAt |-> setAt])

\* history: forget the keys that left the map
forget(u, m) == SelectSeq(u, LAMBDA r : hasKey(m, r.key))

setAtOf(u, key) == (CHOOSE r \in {u[i] : i \in 1..Len(u)} : r.key = key).setAt

CacheSet(key, value) ==
  /\ map' = cacheSet(map, key, value, now)
  /\ lastOp' = Op("set", key, hasKey(map, key), value,
                   SelectSeq(keysOf(map), LAMBDA k : k # key /\ ~hasKey(map', k)))
  /\ uses' = forget(touch(uses, key, now), map')
  /\ UNCHANGED <<now, maxSize, ttl>>
  /\ catalogFrame /\ redactFrame /\ aiFrame /\ UNCHANGED <<call, origin, trail>>

CacheGet(key) ==
  LET got == cacheGet(map, key, now)
  IN /\ map' = got.map
     /\ lastOp' = Op("get", key, got.found, IF got.found THEN got.value ELSE "undefined",
                      SelectSeq(keysOf(map), LAMBDA k : ~hasKey(got.map, k)))
     /\ uses' = IF got.found THEN touch(uses, key, setAtOf(uses, key)) ELSE forget(uses, got.map)
     /\ UNCHANGED <<now, maxSize, ttl>>
     /\ catalogFrame /\ redactFrame /\ aiFrame /\ UNCHANGED <<call, origin, trail>>

CacheHas(key) ==
  LET had == cacheHas(map, key, now)
  IN /\ map' = had.map
     /\ lastOp' = Op("has", key, had.found, "",
                      SelectSeq(keysOf(map), LAMBDA k : ~hasKey(had.map, k)))
     /\ uses' = forget(uses, had.map)
     /\ UNCHANGED <<now, maxSize, ttl>>
     /\ catalogFrame /\ redactFrame /\ aiFrame /\ UNCHANGED <<call, origin, trail>>

CacheClear ==
  /\ map' = <<>>
  /\ lastOp' = Op("clear", "", FALSE, "", keysOf(map))
  /\ uses' = <<>>
  /\ UNCHANGED <<now, maxSize, ttl>>
  /\ catalogFrame /\ redactFrame /\ aiFrame /\ UNCHANGED <<call, origin, trail>>

CacheTick ==
  /\ now < MaxTime
  /\ now' = now + 1
  /\ lastOp' = Op("tick", "", FALSE, "", <<>>)
  /\ UNCHANGED <<map, uses, maxSize, ttl>>
  /\ catalogFrame /\ redactFrame /\ aiFrame /\ UNCHANGED <<call, origin, trail>>

InitCache ==
  /\ detectorsBuild = "dedup"
  /\ secretPatterns = <<>> /\ injectionPatterns = <<>>
  /\ rText = <<>> /\ rSecrets = <<>> /\ rFromScan = FALSE /\ rOut = <<>> /\ rJudged = <<>> /\ rPc = "idle"
  /\ map = <<>>
  /\ maxSize \in 1..MaxCacheSize
  /\ ttl \in 0..MaxTtl
  /\ now = 0
  /\ lastOp = NoOp
  /\ uses = <<>>
  /\ call = NoCall
  /\ trail = <<>>
  /\ compiledLastIndex = 0 /\ iterations = 0
  /\ origin = [k \in {} |-> NoCall]
  /\ pending = [c \in Callers |-> Idle] /\ aiCall = NoAiCall
  /\ previous = NoCall /\ remaining = 0

NextCache ==
  \/ \E key \in Keys, value \in Values : CacheSet(key, value) /\ unobserved
  \/ \E key \in Keys : CacheGet(key) /\ unobserved
  \/ \E key \in Keys : CacheHas(key) /\ unobserved
  \/ CacheClear /\ unobserved
  \/ CacheTick /\ unobserved

SpecCache == InitCache /\ [][NextCache]_vars

(***************************************************************************)
(* The Redactor on its own: a caller scans a text, or makes a finding list *)
(* by hand, and passes it to redactSecrets (tests/detectors.test.js).      *)
(***************************************************************************)
CallDetectSecrets ==
  /\ rPc = "idle"
  /\ rSecrets' = detectSecrets(rText)
  /\ rFromScan' = TRUE
  /\ rPc' = "found"
  /\ UNCHANGED <<rText, rOut, rJudged, map, now>>
  /\ catalogFrame /\ cacheApiFrame /\ sanitizeFrame /\ aiFrame

SupplyFindings ==
  /\ rPc = "idle"
  /\ secretPatterns = <<>>
  /\ \E secrets \in FindingLists(rText) : rSecrets' = secrets
  /\ rFromScan' = FALSE
  /\ rPc' = "found"
  /\ UNCHANGED <<rText, rOut, rJudged, map, now>>
  /\ catalogFrame /\ cacheApiFrame /\ sanitizeFrame /\ aiFrame

CallRedactSecrets ==
  /\ rPc = "found"
  /\ rOut' = redactSecrets(rText, rSecrets)
  /\ rPc' = "done"
  /\ UNCHANGED <<rText, rSecrets, rFromScan, rJudged, map, now>>
  /\ catalogFrame /\ cacheApiFrame /\ sanitizeFrame /\ aiFrame

InitRedact ==
  /\ detectorsBuild \in {"dedup", "desc"}
  /\ secretPatterns \in RedactCatalogs
  /\ injectionPatterns = <<>>
  /\ rText \in Texts
  /\ rSecrets = <<>> /\ rFromScan = FALSE /\ rOut = <<>> /\ rJudged = <<>> /\ rPc = "idle"
  /\ map = <<>>
  /\ maxSize = SanitizeMaxSize
  /\ ttl = SanitizeTtl
  /\ now = 0
  /\ lastOp = NoOp
  /\ uses = <<>>
  /\ call = NoCall
  /\ trail = <<>>
  /\ compiledLastIndex = 0 /\ iterations = 0
  /\ origin = [k \in {} |-> NoCall]
  /\ pending = [c \in Callers |-> Idle] /\ aiCall = NoAiCall
  /\ previous = NoCall /\ remaining = 0

NextRedact ==
  \/ CallDetectSecrets /\ unobserved
  \/ SupplyFindings /\ unobserved
  \/ CallRedactSecrets /\ unobserved

SpecRedact == InitRedact /\ [][NextRedact]_vars

(***************************************************************************)
(* The entropy analyzer on its own (tests/entropy.test.js): a caller asks  *)
(* isHighEntropy about a string, extracts the high-entropy tokens of a     *)
(* text, or scans the text against a catalog of entropy-gated patterns.    *)
(***************************************************************************)
EntropyChars ==
  <<"a", "b", "c", "d", "e", "f", "g", "h", "i", "j", "k", "l",
    "m", "n", "o", "p", "q", "r", "s", "t", "u", "v", "w", "x">>

Distinct(n) == SubSeq(EntropyChars, 1, n)

Repeated(ch, n) == [i \in 1..n |-> ch]

\* a token below the length floor, 16 x 'a', tokens of 16 and 22 distinct
\* characters (4.0 and 4.46 bits), of 23 (4.52 bits), and two of 24
\* characters on either side of 4.5 bits
EntropyTokens ==
  { Distinct(15), Repeated("a", 16), Distinct(16), Distinct(22), Distinct(23),
    Distinct(23) \o <<"a">>, Distinct(22) \o <<"a", "b">> }

EntropyTexts ==
  UNION { { token, <<" ">> \o token, token \o <<" ">> \o Distinct(23) } :
          token \in EntropyTokens }

\* one entropy-gated pattern matching a token, whole or by its first 15
\* characters as a capture group
EntropyCatalogs ==
  {<<>>} \cup
  UNION { { <<Pat(<<"g">>, "high", token, 0, 0, TRUE)>>,
            <<Pat(<<"g">>, "high", token, 0, 15, TRUE)>> } : token \in EntropyTokens }

CallIsHighEntropy(str) ==
  /\ rPc = "idle"
  /\ rJudged = <<>>
  /\ rJudged' = <<[str |-> str, high |-> isHighEntropy(str)]>>
  /\ UNCHANGED <<rText, rSecrets, rFromScan, rOut, rPc, map, now>>
  /\ catalogFrame /\ cacheApiFrame /\ sanitizeFrame /\ aiFrame

CallExtractHighEntropyStrings ==
  /\ rPc = "idle"
  /\ rSecrets' = extractHighEntropyStrings(rText)
  /\ rPc' = "extracted"
  /\ UNCHANGED <<rText, rFromScan, rOut, rJudged, map, now>>
  /\ catalogFrame /\ cacheApiFrame /\ sanitizeFrame /\ aiFrame

InitEntropy ==
  /\ detectorsBuild \in {"dedup", "desc"}
  /\ secretPatterns \in EntropyCatalogs
  /\ injectionPatterns = <<>>
  /\ rText \in EntropyTexts
  /\ rSecrets = <<>> /\ rFromScan = FALSE /\ rOut = <<>> /\ rJudged = <<>> /\ rPc = "idle"
  /\ map = <<>>
  /\ maxSize = SanitizeMaxSize
  /\ ttl = SanitizeTtl
  /\ now = 0
  /\ lastOp = NoOp
  /\ uses = <<>>
  /\ call = NoCall
  /\ trail = <<>>
  /\ compiledLastIndex = 0 /\ iterations = 0
  /\ origin = [k \in {} |-> NoCall]
  /\ pending = [c \in Callers |-> Idle] /\ aiCall = NoAiCall
  /\ previous = NoCall /\ remaining = 0

NextEntropy ==
  \/ \E str \in EntropyTokens : CallIsHighEntropy(str) /\ unobserved
  \/ CallExtractHighEntropyStrings /\ unobserved
  \/ CallDetectSecrets /\ unobserved

SpecEntropy == InitEntropy /\ [][NextEntropy]_vars

(***************************************************************************)
(* The synchronous path step by step: the exec loop of detectSecrets for   *)
(* the pattern of a one-pattern catalog (detectors.js:30-53), the entropy  *)
(* pass (detectors.js:56-72), and cache.set with the loop of evict         *)
(* (cli.js:214-220, 236-240) storing what the scan found under the text.   *)
(***************************************************************************)
\* a literal, a pattern that matches the empty string (such as /x*/ on a
\* text without x), and the same with checkEntropy
LoopCatalogs ==
  { <<Pat(<<"p">>, "critical", <<"a", "b">>, 0, 0, FALSE)>>,
    <<Pat(<<"e">>, "low", <<>>, 0, 0, FALSE)>>,
    <<Pat(<<"g">>, "high", <<>>, 0, 0, TRUE)>> }

LoopTexts == { <<"a">>, <<"a", "b">>, <<"b", "a", "b">> }

\* detectSecrets(text) is entered: findings = [], lastIndex = 0
CallStarts(text) ==
  /\ rPc \in {"idle", "done"}
  /\ rText' = text
  /\ rSecrets' = <<>>
  /\ rFromScan' = TRUE
  /\ compiledLastIndex' = 0
  /\ iterations' = 0
  /\ rPc' = "exec"
  /\ UNCHANGED <<detectorsBuild, secretPatterns, injectionPatterns, rOut, rJudged, map, now>>
  /\ cacheApiFrame /\ sanitizeFrame /\ aiFrame

\* one evaluation of the while condition of detectors.js:34 and, on a
\* match, one run of its body: exec leaves lastIndex at the end of the match
ExecStep ==
  \E pattern \in {secretPatterns[1]} :
  \E index \in {execIndex(pattern.lit, rText, compiledLastIndex)} :
  \E m1 \in {slice(pattern.lit, pattern.gOff, pattern.gOff + pattern.gLen)} :
  \E value \in {IF m1 # <<>> THEN m1 ELSE pattern.lit} :
     /\ rPc = "exec"
     /\ iterations < MaxIterations
     /\ IF index < 0
        THEN /\ compiledLastIndex' = 0
             /\ rPc' = "entropy"
             /\ UNCHANGED <<rSecrets, iterations>>
        ELSE /\ compiledLastIndex' = index + Len(pattern.lit)
             /\ iterations' = iterations + 1
             /\ rSecrets' = IF pattern.checkEntropy /\ ~isHighEntropy(value)
                            THEN rSecrets
                            ELSE Append(rSecrets,
                                        [name |-> pattern.name, severity |-> pattern.severity,
                                         value |-> value, position |-> index,
                                         source |-> "pattern"])
             /\ UNCHANGED rPc
     /\ UNCHANGED <<detectorsBuild, secretPatterns, injectionPatterns, rText, rFromScan,
                    rOut, rJudged, map, now>>
     /\ cacheApiFrame /\ sanitizeFrame /\ aiFrame

\* detectors.js:56-74, then cache.set is entered: map.delete(key)
EntropyPass ==
  \E foundPositions \in {{rSecrets[i].position : i \in 1..Len(rSecrets)}} :
  \E entropyFindings \in {extractHighEntropyStrings(rText)} :
     /\ rPc = "entropy"
     /\ rSecrets' = rSecrets \o
          SelectSeq([i \in 1..Len(entropyFindings) |-> entropyFinding(entropyFindings[i])],
                    LAMBDA f : f.position \notin foundPositions)
     /\ map' = mapDelete(map, rText)
     /\ iterations' = 0
     /\ rPc' = "evict"
     /\ UNCHANGED <<detectorsBuild, secretPatterns, injectionPatterns, compiledLastIndex, rText,
                    rFromScan, rOut, rJudged, now>>
     /\ cacheApiFrame /\ sanitizeFrame /\ aiFrame

\* one run of the body of evict's while: map.keys().next().value is
\* undefined for an empty map, and map.delete(undefined) deletes nothing
EvictStep ==
  /\ rPc = "evict"
  /\ Len(map) >= maxSize
  /\ iterations < MaxIterations
  /\ map' = IF map = <<>> THEN map ELSE Tail(map)
  /\ iterations' = iterations + 1
  /\ UNCHANGED <<detectorsBuild, secretPatterns, injectionPatterns, compiledLastIndex, rText,
                 rSecrets, rFromScan, rOut, rJudged, rPc, now>>
  /\ cacheApiFrame /\ sanitizeFrame /\ aiFrame

\* the while of evict is left: map.set(key, { value, timestamp })
SetStores ==
  /\ rPc = "evict"
  /\ Len(map) < maxSize
  /\ map' = mapAppend(map, [key |-> rText, value |-> rSecrets, timestamp |-> now])
  /\ rPc' = "done"
  /\ UNCHANGED <<detectorsBuild, secretPatterns, injectionPatterns, compiledLastIndex, iterations,
                 rText, rSecrets, rFromScan, rOut, rJudged, now>>
  /\ cacheApiFrame /\ sanitizeFrame /\ aiFrame

InitLoop ==
  /\ detectorsBuild \in {"dedup", "desc"}
  /\ secretPatterns \in LoopCatalogs
  /\ injectionPatterns = <<>>
  /\ rText = <<>> /\ rSecrets = <<>> /\ rFromScan = FALSE /\ rOut = <<>> /\ rJudged = <<>> /\ rPc = "idle"
  /\ map = <<>>
  /\ maxSize \in 0..MaxCacheSize
  /\ ttl = SanitizeTtl
  /\ now = 0
  /\ lastOp = NoOp
  /\ uses = <<>>
  /\ call = NoCall
  /\ trail = <<>>
  /\ compiledLastIndex = 0 /\ iterations = 0
  /\ origin = [k \in {} |-> NoCall]
  /\ pending = [c \in Callers |-> Idle] /\ aiCall = NoAiCall
  /\ previous = NoCall /\ remaining = 0

NextLoop ==
  \/ \E text \in LoopTexts : CallStarts(text) /\ unobserved
  \/ ExecStep /\ unobserved
  \/ EntropyPass /\ unobserved
  \/ EvictStep /\ unobserved
  \/ SetStores /\ unobserved

SpecLoop == InitLoop /\ [][NextLoop]_vars

(***************************************************************************)
(* A session: a caller makes up to MaxCalls sanitize calls one after the   *)
(* other, on a text of its own or on the sanitized text the previous call  *)
(* gave back, and keeps the previous call to compare the last one with.    *)
(***************************************************************************)
SessionCatalogs ==
  { [secrets |-> <<Pat(<<"p">>, "critical", <<"a", "b">>, 0, 0, FALSE)>>,
     injections |-> <<Pat(<<"j">>, "high", <<"b", "b">>, 0, 0, FALSE)>>],
    [secrets |-> <<Pat(<<"q">>, "medium", <<"b", "a">>, 0, 0, FALSE),
                   Pat(<<"r">>, "low", <<"a", "a">>, 0, 0, FALSE)>>,
     injections |-> <<Pat(<<"j">>, "high", <<"b", "b">>, 0, 0, FALSE)>>] }

SessionContents == { <<"a", "b">>, <<"b", "a", "a", "a">> }

\* block mode with highSeverity unset, null, 0, 2 and Infinity; sanitize mode
SessionOptions ==
  { Options("block", BlockThreshold(Undefined, Undefined, t)) :
      t \in {Undefined, Null, Num(0), Num(2), Infinity} }
    \cup { Options("sanitize", BlockThreshold(Undefined, Undefined, Undefined)) }

\* what the caller may pass next
sessionContents ==
  SessionContents \cup (IF call.result.hasSanitized /\ call.result.sanitized # <<>>
                        THEN {call.result.sanitized} ELSE {})

\* the driver's own bookkeeping around a call
observed ==
  /\ remaining > 0
  /\ remaining' = remaining - 1
  /\ previous' = call

InitSession ==
  /\ detectorsBuild \in {"dedup", "desc"}
  /\ \E catalog \in SessionCatalogs :
       /\ secretPatterns = catalog.secrets
       /\ injectionPatterns = catalog.injections
  /\ rText = <<>> /\ rSecrets = <<>> /\ rFromScan = FALSE /\ rOut = <<>> /\ rJudged = <<>> /\ rPc = "idle"
  /\ map = <<>>
  /\ maxSize = SanitizeMaxSize
  /\ ttl = SanitizeTtl
  /\ now = 0
  /\ lastOp = NoOp
  /\ uses = <<>>
  /\ call = NoCall
  /\ trail = <<>>
  /\ compiledLastIndex = 0 /\ iterations = 0
  /\ origin = [k \in {} |-> NoCall]
  /\ pending = [c \in Callers |-> Idle] /\ aiCall = NoAiCall
  /\ previous = NoCall /\ remaining = MaxCalls

NextSession ==
  \/ \E content \in sessionContents, options \in SessionOptions, elapsed \in 0..1 :
       SanitizeCached(content, options, elapsed) /\ observed
  \/ \E content \in sessionContents, options \in SessionOptions, elapsed \in 0..1 :
       SanitizeComputed(content, options, elapsed) /\ observed
  \/ Tick /\ unobserved

SpecSession == InitSession /\ [][NextSession]_vars

(***************************************************************************)
(* sanitize(content, options) with AI enabled.  The call runs to the await *)
(* of index.js:56 in one go and is resumed when analyzeWithAI has settled; *)
(* in between, the provider, the timer of ai.js:172 and the other callers  *)
(* take their steps.                                                       *)
(***************************************************************************)
\* index.js:31-56 and ai.js:141-180: up to the first await
SanitizeAwaitsAI(c, content, options) ==
  \E cacheKey \in {hashKey(content, options)} :
  \E had \in {cacheHas(map, cacheKey, now)} :
  \E patternResults \in {detectAll(content)} :
  \E known \in {options.ai.provider \in Providers} :
     /\ pending[c].stage = "idle"
     /\ validMode(options)
     /\ content # <<>>
     /\ ~had.found
     /\ aiEnabled(options)
     /\ map' = had.map
     /\ origin' = keepOrigin(had.map)
     /\ pending' = [pending EXCEPT ![c] =
                      [stage |-> IF known THEN "fetching" ELSE "rejected",
                       content |-> content, options |-> options, cacheKey |-> cacheKey,
                       patternResults |-> patternResults, since |-> now,
                       armed |-> known,
                       reason |-> IF known THEN "" ELSE "unknown provider",
                       aiResults |-> Null]]
     /\ UNCHANGED <<now, call, trail, aiCall>>
     /\ catalogFrame /\ redactFrame /\ cacheApiFrame

\* what a step of the AI request leaves alone
requestFrame ==
  /\ UNCHANGED <<map, now, call, origin, trail, aiCall>>
  /\ catalogFrame /\ redactFrame /\ cacheApiFrame

\* ai.js:175-186: fetch resolves with the response headers; the timer is
\* cleared, and a status that is not ok is thrown
FetchResponds(c, ok) ==
  /\ pending[c].stage = "fetching"
  /\ pending' = [pending EXCEPT ![c].stage = IF ok THEN "body" ELSE "rejected",
                                ![c].armed = FALSE,
                                ![c].reason = IF ok THEN "" ELSE "http error"]
  /\ requestFrame

\* ai.js:191-197: fetch rejects for a reason of the transport
FetchFails(c) ==
  /\ pending[c].stage = "fetching"
  /\ pending' = [pending EXCEPT ![c].stage = "rejected", ![c].armed = FALSE,
                                ![c].reason = "transport error"]
  /\ requestFrame

\* ai.js:172 and 191-195: the timer fires, controller.abort() rejects what
\* the call awaits with an AbortError
TimerFires(c) ==
  /\ inFlight(pending[c])
  /\ timerDue(pending[c], now)
  /\ pending' = [pending EXCEPT ![c].stage = "rejected", ![c].armed = FALSE,
                                ![c].reason = "timeout"]
  /\ requestFrame

\* ai.js:188-190: the body arrives and is JSON; its text goes through
\* parseAIResponse
BodyArrives(c, text) ==
  /\ pending[c].stage = "body"
  /\ pending' = [pending EXCEPT ![c].stage = "resolved",
                                ![c].reason = IF text.kind = "json" THEN ""
                                              ELSE "unparseable response",
                                ![c].aiResults = parseAIResponse(text)]
  /\ requestFrame

\* ai.js:188 and 191-197: response.json() rejects
BodyFails(c) ==
  /\ pending[c].stage = "body"
  /\ pending' = [pending EXCEPT ![c].stage = "rejected",
                                ![c].reason = "unparseable response"]
  /\ requestFrame

\* index.js:56-176: the call goes on after the await
SanitizeResumes(c) ==
  \E p \in {pending[c]} :
  \E after \in {tryAnalyze(p)} :
  \E all \in {mergeAI(p.patternResults, after.aiResults)} :
  \E result \in {decide(p.content, p.options, all)} :
  \E stored \in {cacheSet(map, p.cacheKey, result, now)} :
     /\ settled(p)
     /\ pending' = [pending EXCEPT ![c] = Idle]
     /\ aiCall' = [asked |-> TRUE, settled |-> p.stage, reason |-> p.reason,
                   aiResults |-> after.aiResults]
     /\ IF after.threw
        THEN /\ UNCHANGED <<map, origin>>
             /\ call' = Called(p.content, p.options, "threw", NoDecision, FALSE, TRUE,
                               FALSE, NoDecision)
             /\ trail' = <<"Scanning", "throw">>
        ELSE /\ map' = stored
             /\ origin' = [k \in keySet(stored) |->
                             IF k = p.cacheKey
                             THEN [content |-> p.content, options |-> p.options,
                                   returned |-> result]
                             ELSE origin[k]]
             /\ call' = Called(p.content, p.options, "returned", result, FALSE, TRUE,
                               storedByIdenticalCall(p.content, p.options, now),
                               firstReturned(p.content, p.options, now))
             /\ trail' = pipelineTrail(p.options, all)
     /\ UNCHANGED now
     /\ catalogFrame /\ redactFrame /\ cacheApiFrame

(***************************************************************************)
(* One caller with AI enabled, awaiting each call before the next.         *)
(***************************************************************************)
OptionsAI(mode, provider, timeout) ==
  [mode |-> mode, blockThreshold |-> BlockThreshold(Undefined, Undefined, Undefined),
   ai |-> [enabled |-> TRUE, provider |-> provider, timeout |-> timeout]]

AiCatalog ==
  [secrets |-> <<Pat(<<"p">>, "medium", <<"a", "b">>, 0, 0, FALSE)>>,
   injections |-> <<Pat(<<"j">>, "high", <<"b", "b">>, 0, 0, FALSE)>>]

AiContents == { <<"a", "b">> }

AiOptions ==
  { OptionsAI("block", "groq", Num(1)),
    OptionsAI("sanitize", "ollama", Num(1)),
    OptionsAI("block", "acme", Undefined) }

\* what the provider may answer
AiTexts ==
  { Prose,
    BadJson,
    Json(FALSE, <<>>, FALSE, <<>>, Str("high")),
    Json(TRUE, <<AiFinding(Str(<<"x">>), Str("high"), Num(1))>>, TRUE, <<>>, Num(9)),
    Json(TRUE, <<AiFinding(Str(<<"x">>), Str("high"), Num(1))>>, TRUE, <<>>, Num(5)),
    Json(TRUE, <<AiFinding(Undefined, Undefined, Num(0))>>, TRUE, <<>>, Num(9)),
    Json(TRUE, <<>>, TRUE, <<AiFinding(Undefined, Undefined, Undefined)>>, Num(9)) }

InitAi ==
  /\ detectorsBuild \in {"dedup", "desc"}
  /\ secretPatterns = AiCatalog.secrets
  /\ injectionPatterns = AiCatalog.injections
  /\ rText = <<>> /\ rSecrets = <<>> /\ rFromScan = FALSE /\ rOut = <<>> /\ rJudged = <<>> /\ rPc = "idle"
  /\ map = <<>>
  /\ maxSize = SanitizeMaxSize
  /\ ttl = SanitizeTtl
  /\ now = 0
  /\ lastOp = NoOp
  /\ uses = <<>>
  /\ call = NoCall
  /\ trail = <<>>
  /\ compiledLastIndex = 0 /\ iterations = 0
  /\ origin = [k \in {} |-> NoCall]
  /\ pending = [c \in Callers |-> Idle] /\ aiCall = NoAiCall
  /\ previous = NoCall /\ remaining = 0

NextAi ==
  \/ \E content \in AiContents, options \in AiOptions :
       SanitizeAwaitsAI("c1", content, options) /\ unobserved
  \/ \E ok \in BOOLEAN : FetchResponds("c1", ok) /\ unobserved
  \/ FetchFails("c1") /\ unobserved
  \/ TimerFires("c1") /\ unobserved
  \/ \E text \in AiTexts : BodyArrives("c1", text) /\ unobserved
  \/ BodyFails("c1") /\ unobserved
  \/ SanitizeResumes("c1") /\ unobserved
  \/ \E content \in AiContents, options \in AiOptions :
       pending["c1"].stage = "idle" /\ SanitizeCached(content, options, 0) /\ unobserved
  \/ Tick /\ unobserved

SpecAi == InitAi /\ [][NextAi]_vars

(***************************************************************************)
(* Concurrent callers: each has at most one sanitize call suspended at the *)
(* await, and their steps interleave in any order.                         *)
(***************************************************************************)
\* one provider that is known and two options that name an unknown one
AsyncOptions ==
  { OptionsAI("block", "groq", Num(1)),
    OptionsAI("block", "acme", Undefined),
    OptionsAI("sanitize", "acme", Undefined) }

AsyncTexts ==
  { Json(TRUE, <<AiFinding(Str(<<"x">>), Str("high"), Num(1))>>, TRUE, <<>>, Num(9)) }

NextAsync ==
  \/ \E c \in Callers, content \in AiContents, options \in AsyncOptions :
       SanitizeAwaitsAI(c, content, options) /\ unobserved
  \/ \E c \in Callers, ok \in BOOLEAN : FetchResponds(c, ok) /\ unobserved
  \/ \E c \in Callers : FetchFails(c) /\ unobserved
  \/ \E c \in Callers : TimerFires(c) /\ unobserved
  \/ \E c \in Callers, text \in AsyncTexts : BodyArrives(c, text) /\ unobserved
  \/ \E c \in Callers : BodyFails(c) /\ unobserved
  \/ \E c \in Callers : SanitizeResumes(c) /\ unobserved
  \/ \E content \in AiContents, options \in AsyncOptions :
       SanitizeCached(content, options, 0) /\ unobserved
  \/ Tick /\ unobserved

SpecAsync == InitAi /\ [][NextAsync]_vars

(***************************************************************************)
(* A caller that writes to the Decision it was given.  sanitize stores     *)
(* `result` with cache.set and returns the same object (index.js:130, 152, *)
(* 174), and a hit returns entry.value itself (cli.js:233): while the      *)
(* entry is in the map, the caller's object and the entry's value are one  *)
(* object, and a write to a field of one is a write to the other.          *)
(***************************************************************************)
AliasOptions ==
  { Options("block", BlockThreshold(Undefined, Undefined, Undefined)),
    Options("sanitize", BlockThreshold(Undefined, Undefined, Undefined)) }

\* result.safe = true, or result.sanitized = content
overwritten(decision, field, content) ==
  IF field = "safe" THEN [decision EXCEPT !.safe = TRUE]
  ELSE [decision EXCEPT !.hasSanitized = TRUE, !.sanitized = content]

CallerMutates(field) ==
  \E cacheKey \in {hashKey(call.content, call.options)} :
  \E changed \in {overwritten(call.result, field, call.content)} :
     /\ call.outcome = "returned"
     /\ call.result.kind = "decision"
     /\ changed # call.result
     /\ map' = IF hasKey(map, cacheKey)
               THEN [map EXCEPT ![indexOf(map, cacheKey)].value = changed]
               ELSE map
     /\ previous' = call
     /\ call' = [call EXCEPT !.outcome = "mutated", !.result = changed]
     /\ UNCHANGED <<now, origin, remaining, trail>>
     /\ catalogFrame /\ redactFrame /\ cacheApiFrame /\ aiFrame

NextAlias ==
  \/ \E content \in Contents, options \in AliasOptions, elapsed \in 0..1 :
       SanitizeCached(content, options, elapsed) /\ unobserved
  \/ \E content \in Contents, options \in AliasOptions, elapsed \in 0..1 :
       SanitizeComputed(content, options, elapsed) /\ unobserved
  \/ \E field \in {"safe", "sanitized"} : CallerMutates(field)
  \/ Tick /\ unobserved

SpecAlias == Init /\ [][NextAlias]_vars

(***************************************************************************)
(* Properties                                                              *)
(***************************************************************************)
returnedDecision == call.result.kind = "decision"

scanFindings(content) == detectAll(content).secrets \o detectAll(content).injections

\* C1: the sanitized text of a non-blocked Decision contains no substring
\* equal to the value of a finding of that call's scan.
C1_NoLeakage ==
  (returnedDecision /\ ~call.result.blocked /\ call.result.hasSanitized) =>
    \A i \in 1..Len(scanFindings(call.content)) :
      ~includes(call.result.sanitized, scanFindings(call.content)[i].value)

\* the block rule as the claim words it, from the scan of the content
claimedThreshold(written, default) ==
  IF written.kind \in {"undefined", "null"} THEN Num(default) ELSE written

blockRule(content, options) ==
  LET found == detectAll(content)
      high == Cardinality({i \in 1..Len(scanFindings(content)) :
                             scanFindings(content)[i].severity \in {"critical", "high"}})
      reaches(count, written, default) ==
        /\ claimedThreshold(written, default).kind = "number"
        /\ count >= claimedThreshold(written, default).n
  IN \/ reaches(Len(found.secrets), options.blockThreshold.secrets, 3)
     \/ reaches(Len(found.injections), options.blockThreshold.injections, 2)
     \/ reaches(high, options.blockThreshold.highSeverity, 1)

\* C2: a block-mode call returns blocked = true exactly when the block rule
\* holds of its content and thresholds, and blocked = false otherwise.
C2_BlockRule ==
  (call.options.mode = "block" /\ call.outcome # "none") =>
    /\ returnedDecision
    /\ call.result.blocked <=> blockRule(call.content, call.options)

pairwiseDisjoint(fs) ==
  \A i, j \in 1..Len(fs) :
    i # j => (spanEnd(fs[i]) <= spanStart(fs[j]) \/ spanEnd(fs[j]) <= spanStart(fs[i]))

\* C3: the spans the Redactor replaces are pairwise non-overlapping and
\* ordered: each splice lies wholly to the left of the ones done before it.
C3_NonOverlap ==
  rPc = "done" =>
    LET done == spliced(detectorsBuild, rSecrets)
    IN /\ pairwiseDisjoint(done)
       /\ \A i, j \in 1..Len(done) : i < j => spanStart(done[j]) <= spanStart(done[i])

\* the findings of fs from left to right (their starts are distinct)
RECURSIVE leftToRight(_)
leftToRight(F) ==
  IF F = {} THEN <<>>
  ELSE LET first == CHOOSE f \in F : \A g \in F : f.position <= g.position
       IN <<first>> \o leftToRight(F \ {first})

\* text with every span of fs (left to right, disjoint) replaced at once
RECURSIVE replacedAtOnce(_, _, _)
replacedAtOnce(text, from, fs) ==
  IF fs = <<>> THEN sliceFrom(text, from)
  ELSE slice(text, from, Head(fs).position)
         \o Placeholder(Head(fs).name)
         \o replacedAtOnce(text, spanEnd(Head(fs)), Tail(fs))

\* C4: when the findings the Redactor keeps are pairwise non-overlapping,
\* its output is the text with each kept span replaced by its placeholder
\* and every other character kept in place; splicing one by one from the
\* right gives the same string as replacing all spans at once.
C4_ExactRewrite ==
  rPc = "done" =>
    LET kept == spliced(detectorsBuild, rSecrets)
        keptSet == {kept[i] : i \in 1..Len(kept)}
    IN (pairwiseDisjoint(kept) /\ Cardinality(keptSet) = Len(kept)) =>
         rOut = replacedAtOnce(rText, 0, leftToRight(keptSet))

C4_Witness ==
  /\ rPc = "done"
  /\ Len(spliced(detectorsBuild, rSecrets)) = 2
  /\ pairwiseDisjoint(spliced(detectorsBuild, rSecrets))
  /\ rSecrets[1].position > rSecrets[2].position
  /\ rSecrets[1].name # rSecrets[2].name
  /\ Len(rSecrets[2].value) = 2

\* C5: a call identical to the one that stored the entry, made while that
\* entry is neither expired nor evicted, is answered from the cache with the
\* Decision the first call returned, and does not scan.
C5_CacheCoherence ==
  call.prior =>
    /\ call.outcome = "returned"
    /\ call.hit
    /\ ~call.scanned
    /\ call.result = call.first

C5_Witness ==
  /\ call.prior
  /\ call.hit
  /\ call.result.kind = "decision"
  /\ call.result.threats.secrets > 0

\* C6: a Decision served from the cache equals the Decision the pipeline
\* computes from scratch for that call's own content and options.
C6_CacheTransparency ==
  call.hit => call.result = decide(call.content, call.options, detectAll(call.content))

\* C7: a set of a new key into a cache that holds maxSize entries evicts
\* exactly one entry, the least recently used one (used = set, or read by a
\* successful get).
C7_LruEviction ==
  [][(lastOp'.op = "set" /\ ~hasKey(map, lastOp'.key) /\ Len(map) = maxSize) =>
       /\ lastOp'.evicted = <<uses[1].key>>
       /\ keySet(map') = (keySet(map) \ {uses[1].key}) \cup {lastOp'.key}]_vars

C7_Witness ==
  /\ maxSize = 2
  /\ lastOp.op = "set" /\ lastOp.key = "c" /\ lastOp.evicted = <<"b">>
  /\ keysOf(map) = <<"a", "c">>
  /\ map[1].timestamp < map[2].timestamp

distinctKeys(m) == \A i, j \in 1..Len(m) : m[i].key = m[j].key => i = j

\* C8: after every operation 0 <= size <= maxSize and each key is stored at
\* most once; a set of a key already present does not increase size.
C8_BoundedSize ==
  /\ [](Len(map) >= 0 /\ Len(map) <= maxSize /\ distinctKeys(map))
  /\ [][(lastOp'.op = "set" /\ hasKey(map, lastOp'.key)) => Len(map') <= Len(map)]_vars

C8_Witness ==
  /\ lastOp.op = "set" /\ lastOp.found
  /\ Len(map) = maxSize
  /\ maxSize > 1

\* C9: an entry is expired exactly when more than ttl has elapsed since it
\* was last set; get / has of an expired entry answer undefined / false and
\* remove it, and remove nothing else; time passing changes nothing.
C9_LazyExpiry ==
  [][/\ (now' # now) => map' = map
     /\ (lastOp'.op \in {"get", "has"}) =>
          LET key == lastOp'.key
              present == hasKey(map, key)
              expired == present /\ now - setAtOf(uses, key) > ttl
          IN /\ lastOp'.found <=> (present /\ ~expired)
             /\ expired => ~hasKey(map', key)
             /\ (present /\ ~expired) => hasKey(map', key)
             /\ \A other \in keySet(map) \ {key} : hasKey(map', other)
             /\ Len(map') = Len(map) - (IF expired THEN 1 ELSE 0)]_vars

C9_Witness ==
  /\ lastOp.op = "get" /\ ~lastOp.found /\ lastOp.evicted = <<lastOp.key>>
  /\ \E i \in 1..Len(map) : now - map[i].timestamp > ttl

\* C10: a call with mode 'sanitize' returns blocked = false together with a
\* sanitized text.
C10_SanitizeNeverRejects ==
  (call.options.mode = "sanitize" /\ call.outcome # "none") =>
    /\ returnedDecision
    /\ ~call.result.blocked
    /\ call.result.hasSanitized

\* the Decisions in sight: the one the last call returned and the cached ones
decisionsInSight ==
  (IF returnedDecision THEN {call.result} ELSE {})
    \cup { map[i].value : i \in 1..Len(map) }

aggregatesOnly(d) ==
  /\ ~d.hasSanitized /\ d.sanitized = <<>>
  /\ ~d.hasActions
  /\ d.hasReason
  /\ d.reason.secrets = d.threats.secrets
  /\ d.reason.injections = d.threats.injections
  /\ d.reason.highSeverity <= d.threats.secrets + d.threats.injections

\* C11 as worded: a blocked Decision, returned or cached, has no sanitized
\* text and carries only the aggregated counts and the reason string, no
\* per-finding data at all.
C11_BlockedCountsOnly ==
  \A d \in decisionsInSight :
    d.blocked => (aggregatesOnly(d) /\ d.threats.details = <<>>)

\* C11 amended: a blocked Decision, returned or cached, has no sanitized
\* text; it carries the aggregated counts, the reason string and one detail
\* per finding holding type, severity and position only, never the value.
C11_BlockedShape ==
  \A d \in decisionsInSight :
    d.blocked =>
      /\ aggregatesOnly(d)
      /\ d.threats.hasDetails
      /\ Len(d.threats.details) = d.threats.secrets + d.threats.injections
      /\ \A i \in 1..Len(d.threats.details) :
           DOMAIN d.threats.details[i] = {"type", "severity", "position"}

C11_Witness ==
  /\ returnedDecision /\ call.result.blocked /\ call.scanned
  /\ call.result.threats.details # <<>>
  /\ \E i \in 1..Len(map) : map[i].value = call.result

\* C15: a call whose mode is missing or is neither block nor sanitize throws,
\* whatever the content, without a cache lookup or a scan, and leaves the
\* cache as it was.
C15_ModeValidation ==
  [][(call' # call /\ call'.options.mode \notin {"block", "sanitize"}) =>
       /\ call'.outcome = "threw"
       /\ call'.result = NoDecision
       /\ ~call'.hit /\ ~call'.scanned
       /\ map' = map /\ origin' = origin /\ now' = now]_vars

C15_Witness ==
  /\ call.outcome = "threw" /\ call.options.mode = "strip" /\ call.content # <<>>
  /\ map # <<>>

\* C16: a call with a valid mode and empty content returns blocked = false,
\* safe = true, zero threat counts and the empty text, without a scan and
\* without reading or writing the cache.
C16_EmptyContent ==
  [][(call' # call /\ call'.options.mode \in {"block", "sanitize"} /\ call'.content = <<>>) =>
       /\ call'.outcome = "returned"
       /\ call'.result.kind = "decision"
       /\ ~call'.result.blocked /\ call'.result.safe
       /\ call'.result.threats.secrets = 0 /\ call'.result.threats.injections = 0
       /\ call'.result.threats.details = <<>>
       /\ call'.result.hasSanitized /\ call'.result.sanitized = <<>>
       /\ ~call'.hit /\ ~call'.scanned
       /\ map' = map /\ origin' = origin /\ now' = now]_vars

C16_Witness ==
  /\ call.outcome = "returned" /\ call.content = <<>> /\ call.options.mode = "block"
  /\ call.result.safe /\ map # <<>>

\* the written threshold as the number it stands for; Infinity is above all
effective(written, default) == nullish(written, default)

above(v, w) ==
  /\ v.kind \in {"number", "Infinity"} /\ w.kind = "number"
  /\ (v.kind = "Infinity" \/ v.n > w.n)

\* o2 is o1 with exactly one blockThreshold value raised
raisedOne(o1, o2) ==
  LET b1 == o1.blockThreshold
      b2 == o2.blockThreshold
      up(x, y, d) == above(effective(y, d), effective(x, d))
  IN /\ o1.mode = "block" /\ o2.mode = "block" /\ o1.ai = o2.ai
     /\ \/ up(b1.secrets, b2.secrets, 3)
           /\ b1.injections = b2.injections /\ b1.highSeverity = b2.highSeverity
        \/ up(b1.injections, b2.injections, 2)
           /\ b1.secrets = b2.secrets /\ b1.highSeverity = b2.highSeverity
        \/ up(b1.highSeverity, b2.highSeverity, 1)
           /\ b1.secrets = b2.secrets /\ b1.injections = b2.injections

bothReturned ==
  /\ previous.result.kind = "decision" /\ call.result.kind = "decision"
  /\ previous.content = call.content

\* C12: for one input in block mode, a call made with one blockThreshold
\* value raised does not turn a non-blocked Decision into a blocked one, and
\* a call made with one value lowered does not turn a blocked Decision into
\* a non-blocked one.
C12_ThresholdMonotone ==
  /\ (bothReturned /\ raisedOne(previous.options, call.options)) =>
       ~(~previous.result.blocked /\ call.result.blocked)
  /\ (bothReturned /\ raisedOne(call.options, previous.options)) =>
       ~(previous.result.blocked /\ ~call.result.blocked)

\* C13: a call that scans the sanitized text of the call before it, under the
\* same options, returns that text unchanged as its own sanitized text.
C13_RedactionIdempotent ==
  (/\ previous.result.kind = "decision" /\ previous.result.hasSanitized
   /\ call.content = previous.result.sanitized
   /\ call.options = previous.options
   /\ call.scanned) =>
     /\ call.result.kind = "decision"
     /\ call.result.hasSanitized
     /\ call.result.sanitized = previous.result.sanitized

\* C14: in every mode and under every blockThreshold, a call whose scan
\* yields no finding returns blocked = false and safe = true.
C14_ZeroFindingsSafe ==
  (call.scanned /\ scanFindings(call.content) = <<>>) =>
     /\ call.result.kind = "decision"
     /\ ~call.result.blocked
     /\ call.result.safe

aiFailed == aiCall.asked /\ (aiCall.settled = "rejected" \/ aiCall.reason # "")

\* C17: when the AI request of a call fails - timeout, transport error, HTTP
\* error, unparseable response, unknown provider - the call returns, and
\* returns the Decision computed from the pattern and entropy findings alone.
C17_AiFailureRecovered ==
  aiFailed =>
    /\ call.outcome = "returned"
    /\ call.result = decide(call.content, call.options, detectAll(call.content))

C17_Witness ==
  /\ aiCall.asked /\ aiCall.settled = "rejected" /\ aiCall.reason = "timeout"
  /\ call.outcome = "returned" /\ call.result.threats.secrets > 0

\* an AI finding whose offset falls inside the span of a scan finding
covered(content, ai) ==
  /\ ai.position.kind = "number"
  /\ \E i \in 1..Len(scanFindings(content)) :
       /\ spanStart(scanFindings(content)[i]) <= ai.position.n
       /\ ai.position.n < spanEnd(scanFindings(content)[i])

newOnes(content, items) ==
  Cardinality({i \in 1..Len(items) : ~covered(content, items[i])})

\* C18: the threat counts of a call that asked the AI are those of the scan,
\* plus - only if the confidence is above 0.5 - one per AI finding whose
\* offset is not inside the span of a pattern or entropy finding.
C18_MergeNoDoubleCount ==
  (aiCall.asked /\ call.outcome = "returned" /\ call.scanned) =>
    LET ai == aiCall.aiResults
        trusted == ai.kind = "results" /\ ai.confidence > 5
    IN /\ call.result.threats.secrets =
            Len(detectAll(call.content).secrets)
              + (IF trusted THEN newOnes(call.content, ai.secrets) ELSE 0)
       /\ call.result.threats.injections =
            Len(detectAll(call.content).injections)
              + (IF trusted THEN newOnes(call.content, ai.injections) ELSE 0)

\* C19: an AI request in flight, waiting for the headers or for the body,
\* has not been in flight for longer than its timeout.
C19_AiCallBounded ==
  \A c \in Callers :
    inFlight(pending[c]) => now - pending[c].since <= aiTimeout(pending[c].options.ai)

\* the entries of m other than key, in order
others(m, key) == SelectSeq(m, LAMBDA e : e.key # key)

\* m2 keeps the entries of m1 it still has in the order they had
orderKept(m1, m2) ==
  \E key \in keySet(m1) \cup keySet(m2) \cup {<<>>} :
    \E n \in 0..Len(others(m1, key)) :
      others(m2, key) = SubSeq(others(m1, key), n + 1, Len(others(m1, key)))

\* C20: under every interleaving of concurrent calls, a step of a call's AI
\* request leaves the cache alone, a step touches the cache for one call
\* only, and the cache keeps distinct keys, its size bound and the relative
\* order of the entries that stay, dropping entries from the old end only.
C20_CacheSerialized ==
  [][/\ \A c \in Callers :
          (inFlight(pending[c]) /\ pending'[c] # pending[c]) => map' = map
     /\ \A c1, c2 \in Callers :
          (pending'[c1] # pending[c1] /\ pending'[c2] # pending[c2]) => c1 = c2
     /\ distinctKeys(map')
     /\ Len(map') <= maxSize
     /\ orderKept(map, map')]_vars

C20_Witness ==
  /\ call.outcome = "returned" /\ call.scanned /\ aiCall.asked
  /\ Len(map) = maxSize
  /\ \E c \in Callers :
       /\ pending[c].stage # "idle"
       /\ pending[c].cacheKey = hashKey(call.content, call.options)
       /\ hasKey(map, pending[c].cacheKey)

\* C21: a string is flagged by isHighEntropy, by an entropy-gated pattern or
\* by the generic entropy scanner only if it is at least 16 characters long
\* and its Shannon entropy is at least 4.5 bits; so nothing shorter than 16
\* characters and nothing made of one repeated character is flagged.
flaggable(value) ==
  /\ Len(value) >= 16
  /\ shannonEntropy(value) >= 4500
  /\ Cardinality({value[i] : i \in 1..Len(value)}) > 1

gated(name) ==
  \E i \in 1..Len(secretPatterns) :
    secretPatterns[i].name = name /\ secretPatterns[i].checkEntropy

spanExact(text, finding) ==
  /\ 0 <= finding.position
  /\ finding.position + Len(finding.value) <= Len(text)
  /\ slice(text, finding.position, finding.position + Len(finding.value)) = finding.value

C22_SpansExact ==
  (rPc = "found" /\ rFromScan) =>
    \A i \in 1..Len(rSecrets) : spanExact(rText, rSecrets[i])

\* C23: in a non-blocked Decision for a text with both secret and injection
\* findings, the injection pass deletes exactly the characters of the
\* injection findings from the redacted text: no injection phrase remains,
\* nothing else is deleted, and every placeholder the Redactor wrote is whole.
RECURSIVE totalLength(_)
totalLength(fs) == IF fs = <<>> THEN 0 ELSE Len(Head(fs).value) + totalLength(Tail(fs))

C23_InjectionRemovalExact ==
  (returnedDecision /\ ~call.result.blocked /\ call.result.hasSanitized) =>
    LET found == detectAll(call.content)
        redacted == redactSecrets(call.content, found.secrets)
        kept == spliced(detectorsBuild, found.secrets)
    IN (found.secrets # <<>> /\ found.injections # <<>>) =>
         /\ \A i \in 1..Len(found.injections) :
              ~includes(call.result.sanitized, found.injections[i].value)
         /\ Len(call.result.sanitized) = Len(redacted) - totalLength(found.injections)
         /\ includes(redacted, Placeholder(kept[1].name)) =>
              includes(call.result.sanitized, Placeholder(kept[1].name))

\* C24: a call with a valid mode and a non-empty content returns a Decision
\* object, never undefined, also when the cached entry for its key reaches
\* its TTL between cache.has and the cache.get that follows it.
C24_AlwaysDecision ==
  (/\ call.outcome # "none"
   /\ call.options.mode \in {"block", "sanitize"}
   /\ call.content # <<>>) =>
    /\ call.outcome = "returned"
    /\ call.result.kind = "decision"

\* C25: every character of the input that lies inside the span of at least
\* one finding passed to the Redactor is absent from the redacted text, the
\* tail of a finding dropped for overlapping a retained one included: the
\* input characters left in the output come from outside every span.
RECURSIVE isSubsequence(_, _)
isSubsequence(s, t) ==
  IF s = <<>> THEN TRUE
  ELSE IF t = <<>> THEN FALSE
  ELSE IF Head(s) = Head(t) THEN isSubsequence(Tail(s), Tail(t))
  ELSE isSubsequence(s, Tail(t))

insideSomeSpan(fs, at) ==
  \E i \in 1..Len(fs) : spanStart(fs[i]) <= at /\ at < spanEnd(fs[i])

outsideEverySpan(text, fs) ==
  LET at == SelectSeq([i \in 1..Len(text) |-> i - 1], LAMBDA o : ~insideSomeSpan(fs, o))
  IN [i \in 1..Len(at) |-> text[at[i] + 1]]

C25_FullCoverage ==
  rPc = "done" =>
    isSubsequence(SelectSeq(rOut, LAMBDA ch : ch \in Alphabet),
                  outsideEverySpan(rText, rSecrets))

\* C26: redactSecrets is a function of the text and the set of findings: any
\* other ordering of the same findings gives the same output string, the
\* pattern name in the placeholder of two findings with the same start
\* offset and the same length included.
reordered(fs, order) == [i \in 1..Len(fs) |-> fs[order[i]]]

C26_OrderIndependent ==
  rPc = "done" =>
    \A order \in Permutations(1..Len(rSecrets)) :
      redactSecrets(rText, reordered(rSecrets, order)) = rOut

\* C27: the object a caller receives is not aliased with the cached entry:
\* after a caller has written to a Decision it was given, a later call with
\* the same content and options still returns the Decision as it was given.
C27_NoAliasing ==
  (/\ previous.outcome = "returned"
   /\ call.outcome = "returned"
   /\ call.content = previous.content
   /\ call.options = previous.options) =>
    call.result = previous.result

\* C28: after a call whose AI request failed, the next call with the same
\* content and options is not answered from the cache: it runs the whole
\* pipeline again and sends a new AI request.
reinvoked ==
  /\ call'.outcome # "none"
  /\ call'.content = call.content
  /\ call'.options = call.options
  /\ (call'.hit \/ aiCall'.asked)

C28_RetryByReinvocation ==
  [][(aiFailed /\ call.outcome = "returned" /\ pending["c1"].stage = "idle" /\ reinvoked) =>
       (~call'.hit /\ call'.scanned /\ aiCall'.asked)]_vars

times(event) == Cardinality({i \in 1..Len(trail) : trail[i] = event})

before(first, second) ==
  \E i, j \in 1..Len(trail) : i < j /\ trail[i] = first /\ trail[j] = second

\* the state machine Idle -> Scanning -> (Blocked | Sanitizing -> Sanitized)
\* and its side conditions, for the last call
stateMachine ==
  /\ Len(trail) > 0 /\ trail[1] = "Scanning" /\ times("Scanning") = 1
  /\ times("Blocked") + times("Sanitized") = 1
  /\ times("Sanitized") = 1 <=> (times("Sanitizing") = 1 /\ before("Sanitizing", "Sanitized"))
  /\ times("Blocked") = 1 => times("Sanitizing") = 0
  /\ call.result.blocked <=> times("Blocked") = 1
  /\ times("redactSecrets") = times("Sanitized")
  /\ times("redactSecrets") = 1 => before("redactSecrets", "Sanitized")
  /\ times("cache.set") = 1
  /\ before("Blocked", "cache.set") \/ before("Sanitized", "cache.set")
  /\ before("cache.set", "return")
  /\ \A i, j \in 1..Len(trail) : i # j => trail[i] # trail[j]
  /\ (\A c \in Callers : pending[c].stage = "idle") =>
       /\ hasKey(map, hashKey(call.content, call.options))
       /\ map[indexOf(map, hashKey(call.content, call.options))].value = call.result

passedValidation == trail # <<>> /\ times("throw") = 0

\* C29 as stated: every call that passes validation and is not answered from
\* the cache goes Idle -> Scanning exactly once, ends in exactly one of
\* Blocked and Sanitized (via Sanitizing), runs the Redactor only on the way
\* to Sanitized, stores its Decision exactly once between computing and
\* returning it, and enters no state twice.
C29_StateMachineAll ==
  (passedValidation /\ times("cache.get") = 0 /\ call.outcome = "returned") => stateMachine

\* C29, amended: the same for every such call with a non-empty content.
C29_StateMachine ==
  (/\ passedValidation /\ times("cache.get") = 0 /\ call.outcome = "returned"
   /\ call.content # <<>>) => stateMachine

\* a blocked call that was computed and stored
C29_Witness ==
  /\ passedValidation /\ times("cache.get") = 0 /\ call.outcome = "returned"
  /\ call.content # <<>>
  /\ call.result.blocked
  /\ times("Blocked") = 1

\* C30: detectSecrets and cache.set return for every text, every catalog
\* that compiles and every maxSize >= 0.  Both loops of the synchronous path
\* are deterministic in the state they test, so they end only if every
\* iteration changes it: an iteration of the exec loop moves lastIndex
\* forward, and an iteration of evict's loop makes the map smaller.
C30_SyncTerminates ==
  [][iterations' = iterations + 1 =>
       /\ rPc = "exec" => compiledLastIndex' > compiledLastIndex
       /\ rPc = "evict" => Len(map') < Len(map)]_vars

====
